---- MODULE Spec2Model ----
(***************************************************************************)
(* WebScribe: the GUI worker (_run_scraping), WebScribe.scrape_page with   *)
(* its page-level wait, WebScribe.login and the recursive walk             *)
(* _collect_all_elements, as one state machine (Spec).  The browser driver *)
(* is the environment: every call to it answers nondeterministically (a    *)
(* value or a raised exception).                                           *)
(*                                                                         *)
(* Six more specifications run one part on its own: SpecWait the           *)
(* page-level wait under weak fairness of the worker, SpecRecorder a       *)
(* direct call of _get_element_info, SpecLocator direct calls of           *)
(* _get_xpath and _get_css_selector on the documents of a bounded family,  *)
(* SpecReplay two traversals of one page against the same scripted         *)
(* collaborator, SpecHtml direct calls of _generate_elements_html, and     *)
(* SpecGui the window with several worker threads, scrape_page being one   *)
(* step of a worker, under weak fairness of the threads and the main loop. *)
(***************************************************************************)
EXTENDS Integers, Sequences, FiniteSets, TLC

VARIABLES
    pc,             \* position of the worker thread in _run_scraping / scrape_page / login
    is_running,     \* WebScribeGUI.is_running, the flag stop_scraping clears
    session,        \* the browser session: "none" | "open" (held by the worker's scribe) |
                    \* "orphan" (running, held by no WebScribe object) | "closed"
    login_info,     \* the login_info dict handed to scrape_page
    lg,             \* the locals of a running login() call
    url,            \* the page the driver is on
    page_info,      \* how many times scrape_page captured page_info
    dom,            \* the page: dom[k] is the parent of node k, node 0 is <body>
    max_depth,      \* max_depth of the walk
    max_elements,   \* max_elements of the walk
    element_count,  \* element_count[0], the counter shared by the recursion
    stack,          \* call stack of _collect_all_elements, innermost call last
    shown,          \* per node: the answer of is_displayed() in the walk
    indexOf,        \* per node: the index its record was given, -1 when none
    queryDepths,    \* current_depth of every call that enumerated elements
    notices,        \* number of "element cap reached" warnings printed
    result,         \* what scrape_page returned (<<>> before it returns)
    files,          \* output files written by the worker
    failure,        \* the exception surfaced to the worker's except clause
    stop_in_walk,   \* a stop was requested while _collect_all_elements was running
    ws,             \* the page-level wait of scrape_page: its phase and its locals
    call,           \* a direct call of a helper method: its arguments and its value
    timing_stats,   \* self.timing_stats: <<>> for None, else <<the TimingStats object>>
    gui             \* the two buttons of the window and its worker threads

vars == <<pc, is_running, session, login_info, lg, url, page_info, dom,
          max_depth, max_elements, element_count, stack, shown, indexOf,
          queryDepths, notices, result, files, failure, stop_in_walk,
          ws, call, timing_stats, gui>>

(* ------------------------------ bounds -------------------------------- *)
MaxNodes == 4
MaxLimit == 2

DefaultMaxDepth == 50
DefaultMaxElements == 10000
AdditionalWait == 5

Nodes == 0 .. (MaxNodes - 1)
Body == 0

\* every page of at most MaxNodes elements: a parent precedes its children
Doms ==
    UNION { { d \in [1 .. m -> Nodes] : \A k \in 1 .. m : d[k] < k } : m \in 0 .. (MaxNodes - 1) }

DomNodes(d) == 0 .. Len(d)

DepthLimits == (1 .. MaxLimit) \cup {DefaultMaxDepth}
ElementLimits == (0 .. MaxLimit) \cup {DefaultMaxElements}
\* the values document.body.scrollHeight and window.innerHeight are read as
Heights == 0 .. MaxLimit

\* no helper is being called directly
NoCall == [op |-> "none"]

\* the page-level wait in one of its phases, its locals fresh: iter counts the
\* rounds of the polling loop, samples holds the two heights of the last round
\* (-1 for a read that raised), pos is the next scroll position, faults the
\* non-fatal faults met so far
WsAt(phase) ==
    [phase |-> phase, iter |-> 0, samples |-> <<>>, measured |-> FALSE,
     total |-> 0, viewport |-> 0, pos |-> 0, faults |-> {}]

\* scrape_page is not in its page-level wait
WsIdle == WsAt("none")

(* ------------------------------ the page ------------------------------ *)
\* element.tag_name of a node
TagOf(n) == IF n = Body THEN "body" ELSE IF n % 3 = 0 THEN "span" ELSE "div"

\* parent.find_elements(By.XPATH, "./*"): the child elements in document order
FindChildren(d, p) ==
    SelectSeq([k \in 1 .. Len(d) |-> k], LAMBDA k : d[k] = p)

RECURSIVE IsDescendant(_, _, _)
IsDescendant(d, n, a) ==
    IF n = Body THEN FALSE
    ELSE d[n] = a \/ IsDescendant(d, d[n], a)

(* --------------------------- Element Recorder -------------------------- *)
CoreFields == {"tag_name", "text", "is_displayed", "is_enabled"}
SoftFields == {"attributes", "location", "size"}

\* the accessor faults the walk is run against
RecorderFaults == { {}, {"tag_name"} }

LocatorFields == {"xpath", "css_selector"}
RecorderFields == CoreFields \cup SoftFields \cup LocatorFields

\* what an accessor of the element answers when it does not raise
Answer(n, field) ==
    CASE field = "tag_name"     -> TagOf(n)
      [] field = "text"         -> "text"
      [] field = "is_displayed" -> TRUE
      [] field = "is_enabled"   -> TRUE
      [] field = "attributes"   -> "attrs"
      [] field = "location"     -> "xy"
      [] field = "size"         -> "wh"
      [] field = "xpath"        -> "xp"
      [] field = "css_selector" -> "css"

\* one of the fields that has its own try block: the value read, or the value
\* the info dict was created with when the read raises
Guarded(n, field, faults, initial) ==
    IF field \in faults THEN initial ELSE Answer(n, field)

\* _get_element_info: faults is the set of accessors that raise for this
\* element.  tag_name, text, is_displayed() and is_enabled() are read under the
\* outer try alone: when one of them raises the method returns the stub
ElementInfo(n, index, faults, include_xpath, include_css_selector) ==
    IF faults \cap CoreFields # {}
    THEN [index |-> index, error |-> "error"]
    ELSE [index          |-> index,
          tag_name       |-> Answer(n, "tag_name"),
          text           |-> Answer(n, "text"),
          attributes     |-> Guarded(n, "attributes", faults, "{}"),
          location       |-> Guarded(n, "location", faults, "{}"),
          size           |-> Guarded(n, "size", faults, "{}"),
          is_displayed   |-> Answer(n, "is_displayed"),
          is_enabled     |-> Answer(n, "is_enabled"),
          children_count |-> 0,
          xpath          |-> IF include_xpath
                             THEN Guarded(n, "xpath", faults, "") ELSE "",
          css_selector   |-> IF include_css_selector
                             THEN Guarded(n, "css_selector", faults, "") ELSE ""]

\* the call the walk makes: scrape_page passes include_xpath=False and
\* include_css_selector=False
GetElementInfo(n, index, faults) == ElementInfo(n, index, faults, FALSE, FALSE)

(* ------------------------------ TimingStats ---------------------------- *)
\* the TimingStats object: elements is len(element_timings), total tells
\* whether start_total() and end_total() were called, printed whether
\* print_summary() was
NewTimingStats ==
    <<[elements |-> 0, total |-> "unset", printed |-> FALSE]>>

\* WebScribe.__init__: TimingStats() if enable_timing else None
TimingStatsFor(enable_timing) == IF enable_timing THEN NewTimingStats ELSE <<>>

\* "if self.timing_stats:" in front of every timing call
TimingGuard(ts) == ts # <<>>

\* the timing call made without the guard: None.record(...) raises
TimingCallRaisesOnNone(ts) == ts = <<>>

\* a timing call is reached although there is no TimingStats object:
\* None.record(...) raises AttributeError
TimingCallRaises(ts) == TimingGuard(ts) /\ ts = <<>>

\* record_element at the end of _get_element_info; the stub of a failed
\* recording is returned from the except clause, which records nothing
RecordElementTime(ts, info) ==
    IF TimingGuard(ts) /\ "error" \notin DOMAIN info
    THEN <<[ts[1] EXCEPT !.elements = ts[1].elements + 1]>>
    ELSE ts

\* start_total() before the traversal
StartTotal(ts) == IF TimingGuard(ts) THEN <<[ts[1] EXCEPT !.total = "started"]>> ELSE ts

\* end_total() and print_summary() once the traversal has returned
EndTotalAndPrintSummary(ts) ==
    IF TimingGuard(ts) THEN <<[ts[1] EXCEPT !.total = "ended", !.printed = TRUE]>> ELSE ts

(* ---------------------------- Tree Collector --------------------------- *)
\* The collaborator (the driver and the elements it hands out) answers as it
\* likes, except in a replayed walk (call.op = "replay"), where call.script
\* fixes per element what is_displayed() answers, which recorder reads fail and
\* whether find_elements on it works
Scripted == call.op = "replay"
DisplayAnswers(e) ==
    IF Scripted THEN {call.script[e].displayed} ELSE {"visible", "hidden", "fault"}
RecorderAnswers(e) ==
    IF Scripted THEN {call.script[e].faults} ELSE RecorderFaults
FindAnswers(parent) ==
    IF Scripted THEN {parent = -1 \/ call.script[parent].found} ELSE BOOLEAN
\* print() of the cap warning: sys.stdout may be a stream that raises; a
\* replayed walk writes to a console that works
PrintAnswers == IF Scripted THEN {TRUE} ELSE BOOLEAN

Frame(parent, depth) ==
    [parent |-> parent, depth |-> depth, pc |-> "enter",
     elems |-> <<>>, i |-> 1, data |-> <<>>, info |-> <<>>]

Top == stack[Len(stack)]
Rest == SubSeq(stack, 1, Len(stack) - 1)
Collecting == pc = "collect" /\ stack # <<>>

\* the children attached, the count left as the recorder set it
AttachChildrenOnly(info, children) ==
    [children |-> children] @@ info

\* element_info['children'] = children; element_info['children_count'] = len(children)
AttachChildren(info, children) ==
    [children |-> children, children_count |-> Len(children)] @@ info

\* the depth check, off by one
DepthExceededLate(depth) == depth > max_depth

\* the depth check at the head of _collect_all_elements
DepthExceeded(depth) == depth >= max_depth

\* the element-count check, off by one
CapReachedLate == element_count > max_elements

\* the element-count check, at the head of the call and of every loop round
CapReached == element_count >= max_elements

\* the caller's frame once the recursive call has handed back children
Resume(f, children) ==
    [f EXCEPT !.data = Append(f.data, AttachChildren(f.info[1], children)),
              !.info = <<>>,
              !.i = f.i + 1]

\* the tail of scrape_page: the result dict built from the collected forest
ScrapeResult(elements) ==
    [page_info |-> "page_info", elements |-> elements, total_elements |-> Len(elements)]

\* the summary printed at the return of every call, inner ones included
ReturnFromSummarising(children) ==
    /\ timing_stats' = EndTotalAndPrintSummary(timing_stats)
    /\ IF Len(stack) = 1
       THEN /\ stack' = <<>>
            /\ pc' = "check_scraped"
            /\ result' = <<ScrapeResult(children)>>
       ELSE /\ stack' = Append(SubSeq(stack, 1, Len(stack) - 2),
                               Resume(stack[Len(stack) - 1], children))
            /\ UNCHANGED <<pc, result>>

\* a call returns `children` to whoever called it; the outermost call returns into
\* scrape_page, which builds the result and returns it to the worker
ReturnFrom(children) ==
    IF Len(stack) = 1
    THEN /\ stack' = <<>>
         /\ pc' = "check_scraped"
         /\ result' = <<ScrapeResult(children)>>
         /\ timing_stats' = EndTotalAndPrintSummary(timing_stats)
    ELSE /\ stack' = Append(SubSeq(stack, 1, Len(stack) - 2),
                            Resume(stack[Len(stack) - 1], children))
         /\ UNCHANGED <<pc, result, timing_stats>>

\* a call raises: the caller's except clause gives the record no children;
\* the outermost call raises into scrape_page
RaiseFrom ==
    IF Len(stack) = 1
    THEN /\ stack' = <<>>
         /\ pc' = "finally"
         /\ failure' = "collect"
    ELSE /\ stack' = Append(SubSeq(stack, 1, Len(stack) - 2),
                            Resume(stack[Len(stack) - 1], <<>>))
         /\ UNCHANGED <<pc, failure>>

\* entry of a call: depth check, cap check (its warning is printed, and the
\* print may raise), enumeration of the elements.  With parent None the
\* elements are <body> alone, or nothing when neither lookup finds it (the
\* outer except clause); with a parent they are its children, or nothing when
\* find_elements raises
CollectEnter ==
    /\ Collecting
    /\ Top.pc = "enter"
    /\ IF DepthExceeded(Top.depth)
       THEN /\ ReturnFrom(<<>>)
            /\ UNCHANGED <<failure, notices, queryDepths>>
       ELSE IF CapReached
       THEN /\ notices' = notices + 1
            /\ \E printed \in PrintAnswers :
                 IF printed
                 THEN ReturnFrom(<<>>) /\ UNCHANGED failure
                 ELSE RaiseFrom /\ UNCHANGED <<result, timing_stats>>
            /\ UNCHANGED queryDepths
       ELSE /\ queryDepths' = queryDepths \cup {Top.depth}
            /\ \E ok \in FindAnswers(Top.parent) :
                 LET elems == IF Top.parent = -1
                              THEN (IF ok THEN <<Body>> ELSE <<>>)
                              ELSE (IF ok THEN FindChildren(dom, Top.parent) ELSE <<>>)
                 IN stack' = Append(Rest, [Top EXCEPT !.pc = "loop", !.elems = elems])
            /\ UNCHANGED <<pc, result, failure, notices, timing_stats>>
    /\ UNCHANGED <<call, gui, ws, stop_in_walk, is_running, session, login_info, lg, url, page_info, dom,
                   max_depth, max_elements, element_count, shown, indexOf, files>>

\* the display test dropped: whatever answers is recorded
IsCollectedAlways(displayed) == displayed # "fault"

\* "if is_displayed:" only a displayed element is recorded and descended into
IsCollected(displayed) == displayed = "visible"

\* the skipped element ends the whole loop
BreakLoop(f) == [f EXCEPT !.i = Len(f.elems) + 1]

\* "continue" in the except clause of the round (and the end of a round that
\* recorded nothing): the loop goes on with the next element
Continue(f) == [f EXCEPT !.i = f.i + 1]

\* one round of the for loop over the enumerated elements: the cap check, then
\* is_displayed() answers True ("visible"), False ("hidden") or the round
\* raises before anything is recorded ("fault") and the element is skipped
VisitElement ==
    /\ Collecting
    /\ Top.pc = "loop"
    /\ Top.i <= Len(Top.elems)
    /\ ~CapReached
    /\ LET e == Top.elems[Top.i] IN
       \E displayed \in DisplayAnswers(e) :
         /\ shown' = [shown EXCEPT ![e] = displayed]
         /\ IF IsCollected(displayed) /\ ~TimingCallRaises(timing_stats)
            THEN \E faults \in RecorderAnswers(e) :
                   LET info == GetElementInfo(e, element_count, faults) IN
                   /\ stack' = Append(Append(Rest, [Top EXCEPT !.info = <<info>>]),
                                      Frame(e, Top.depth + 1))
                   /\ indexOf' = [indexOf EXCEPT ![e] = element_count]
                   /\ element_count' = element_count + 1
                   /\ timing_stats' = RecordElementTime(timing_stats, info)
            ELSE /\ stack' = Append(Rest, Continue(Top))
                 /\ UNCHANGED <<indexOf, element_count, timing_stats>>
    /\ UNCHANGED <<call, gui, ws, stop_in_walk, pc, is_running, session, login_info, lg, url, page_info, dom,
                   max_depth, max_elements, queryDepths, notices, result, files, failure>>

\* a loop left by the cap check returns nothing of what it had collected
CollectReturnDropping ==
    /\ Collecting
    /\ Top.pc = "loop"
    /\ (Top.i > Len(Top.elems) \/ CapReached)
    /\ ReturnFrom(IF CapReached THEN <<>> ELSE Top.data)
    /\ UNCHANGED <<call, gui, ws, stop_in_walk, is_running, session, login_info, lg, url, page_info, dom,
                   max_depth, max_elements, element_count, shown, indexOf,
                   queryDepths, notices, files, failure>>

\* the loop is over (exhausted or left by the cap check): return elements_data
CollectReturn ==
    /\ Collecting
    /\ Top.pc = "loop"
    /\ (Top.i > Len(Top.elems) \/ CapReached)
    /\ ReturnFrom(Top.data)
    /\ UNCHANGED <<call, gui, ws, stop_in_walk, is_running, session, login_info, lg, url, page_info, dom,
                   max_depth, max_elements, element_count, shown, indexOf,
                   queryDepths, notices, files, failure>>

(* ------------------------------- login --------------------------------- *)
Credentials == {"login_url", "username", "password"}
Selectors == {"username_selector", "password_selector", "submit_selector"}

\* login_info: present is "the dict was passed", fields its non-empty entries
NoLogin == [present |-> FALSE, fields |-> {}]
LoginInputs == {NoLogin} \cup [present : {TRUE}, fields : SUBSET (Credentials \cup Selectors)]

\* sels: the selectors supplied or detected; filled: the fields typed into;
\* clicks, keys: submit clicks and RETURN keystrokes issued; cur: the
\* current_url read after the wait (<<>> while unread); fault: the step whose
\* collaborator call raised; ret: the value login() returned
LgIdle == [sels |-> {}, filled |-> {}, clicks |-> 0, keys |-> 0, cur |-> <<>>,
           warned |-> FALSE, fault |-> "none", ret |-> "none"]

\* what the comparison at line 693 looks at in current_url: whether it differs
\* from login_url, whether it contains "login", whether it contains "signin"
CurrentUrls == [differs : BOOLEAN, login : BOOLEAN, signin : BOOLEAN]

InLogin == pc \in {"login_get", "login_locate", "login_user", "login_pass",
                   "login_submit", "login_wait", "login_ret"}

\* login() returns False
LoginFails ==
    /\ lg' = [lg EXCEPT !.ret = "false"]
    /\ pc' = "login_ret"

\* the fault of a step passed over: the sequence goes on to the post-login wait
LoginRaisesLate(step) ==
    /\ lg' = [lg EXCEPT !.fault = step]
    /\ pc' = "login_wait"

\* a collaborator call of the step raised: login() returns False
LoginRaises(step) ==
    /\ lg' = [lg EXCEPT !.ret = "false", !.fault = step]
    /\ pc' = "login_ret"

\* driver.get(login_url) and the wait for <body>
LoginGet ==
    /\ pc = "login_get"
    /\ \E ok \in BOOLEAN :
         IF ok
         THEN /\ url' = "login"
              /\ pc' = "login_locate"
              /\ lg' = [lg EXCEPT !.sels = login_info.fields \cap Selectors]
         ELSE /\ LoginRaises("get")
              /\ UNCHANGED url
    /\ UNCHANGED <<call, gui, timing_stats, ws, stop_in_walk, is_running, session, login_info, page_info, dom, max_depth,
                   max_elements, element_count, stack, shown, indexOf,
                   queryDepths, notices, result, files, failure>>

\* _find_element_selector for every selector that was not supplied:
\* found is the set of roles for which some candidate shows a visible element
LoginLocate ==
    /\ pc = "login_locate"
    /\ \E found \in SUBSET Selectors :
         lg' = [lg EXCEPT !.sels = lg.sels \cup found]
    /\ pc' = "login_user"
    /\ UNCHANGED <<call, gui, timing_stats, ws, stop_in_walk, is_running, session, login_info, url, page_info, dom, max_depth,
                   max_elements, element_count, stack, shown, indexOf,
                   queryDepths, notices, result, files, failure>>

\* a field without a selector is passed over instead of failing the login
FillFieldLenient(at, selector, field, next) ==
    /\ pc = at
    /\ IF selector \in lg.sels
       THEN \E ok \in BOOLEAN :
              IF ok
              THEN /\ lg' = [lg EXCEPT !.filled = lg.filled \cup {field}]
                   /\ pc' = next
              ELSE LoginRaises(field)
       ELSE /\ pc' = next
            /\ UNCHANGED lg
    /\ UNCHANGED <<call, gui, timing_stats, ws, stop_in_walk, is_running, session, login_info, url, page_info, dom, max_depth,
                   max_elements, element_count, stack, shown, indexOf,
                   queryDepths, notices, result, files, failure>>

\* one credential field: find it, clear it, type into it
FillField(at, selector, field, next) ==
    /\ pc = at
    /\ IF selector \in lg.sels
       THEN \E ok \in BOOLEAN :
              IF ok
              THEN /\ lg' = [lg EXCEPT !.filled = lg.filled \cup {field}]
                   /\ pc' = next
              ELSE LoginRaises(field)
       ELSE LoginFails
    /\ UNCHANGED <<call, gui, timing_stats, ws, stop_in_walk, is_running, session, login_info, url, page_info, dom, max_depth,
                   max_elements, element_count, stack, shown, indexOf,
                   queryDepths, notices, result, files, failure>>

LoginUser == FillField("login_user", "username_selector", "username", "login_pass")
LoginPass == FillField("login_pass", "password_selector", "password", "login_submit")

\* without a submit selector the login is given up, as for the two fields
LoginSubmitStrict ==
    /\ pc = "login_submit"
    /\ IF "submit_selector" \in lg.sels
       THEN \E out \in {"clicked", "notfound", "raised"} :
              CASE out = "clicked"  -> /\ lg' = [lg EXCEPT !.clicks = 1]
                                       /\ pc' = "login_wait"
                [] out = "notfound" -> LoginRaises("submit")
                [] out = "raised"   -> /\ lg' = [lg EXCEPT !.clicks = 1, !.ret = "false",
                                                           !.fault = "submit"]
                                       /\ pc' = "login_ret"
       ELSE LoginFails
    /\ UNCHANGED <<call, gui, timing_stats, ws, stop_in_walk, is_running, session, login_info, url, page_info, dom, max_depth,
                   max_elements, element_count, stack, shown, indexOf,
                   queryDepths, notices, result, files, failure>>

\* click the submit element (it is not found, or click() raises, or it is
\* clicked), or without a submit selector send RETURN to the password field
LoginSubmit ==
    /\ pc = "login_submit"
    /\ IF "submit_selector" \in lg.sels
       THEN \E out \in {"clicked", "notfound", "raised"} :
              CASE out = "clicked"  -> /\ lg' = [lg EXCEPT !.clicks = 1]
                                       /\ pc' = "login_wait"
                [] out = "notfound" -> LoginRaises("submit")
                [] out = "raised"   -> /\ lg' = [lg EXCEPT !.clicks = 1, !.ret = "false",
                                                           !.fault = "submit"]
                                       /\ pc' = "login_ret"
       ELSE \E out \in {"sent", "raised"} :
              CASE out = "sent"     -> /\ lg' = [lg EXCEPT !.keys = 1]
                                       /\ pc' = "login_wait"
                [] out = "raised"   -> /\ lg' = [lg EXCEPT !.keys = 1, !.ret = "false",
                                                           !.fault = "keystroke"]
                                       /\ pc' = "login_ret"
    /\ UNCHANGED <<call, gui, timing_stats, ws, stop_in_walk, is_running, session, login_info, url, page_info, dom, max_depth,
                   max_elements, element_count, stack, shown, indexOf,
                   queryDepths, notices, result, files, failure>>

\* the URL counts as left only when it differs and names neither login nor signin
LeftLoginPage(cur) == cur.differs /\ ~cur.login /\ ~cur.signin

\* an URL that does not count as left fails the login
LoginWaitStrict ==
    /\ pc = "login_wait"
    /\ \/ \E cur \in CurrentUrls :
            /\ url' = IF cur.differs THEN "after_login" ELSE "login"
            /\ lg' = [lg EXCEPT !.cur = <<cur>>,
                                !.ret = IF LeftLoginPage(cur) THEN "true" ELSE "false",
                                !.warned = ~LeftLoginPage(cur)]
       \/ /\ lg' = [lg EXCEPT !.ret = "false", !.fault = "current_url"]
          /\ UNCHANGED url
    /\ pc' = "login_ret"
    /\ UNCHANGED <<call, gui, timing_stats, ws, stop_in_walk, is_running, session, login_info, page_info, dom, max_depth,
                   max_elements, element_count, stack, shown, indexOf,
                   queryDepths, notices, result, files, failure>>

\* sleep, read driver.current_url (the read may raise, which the outer except
\* clause turns into False), compare it with the login URL: True either way,
\* with a warning when the page does not count as left
LoginWait ==
    /\ pc = "login_wait"
    /\ \/ \E cur \in CurrentUrls :
            /\ url' = IF cur.differs THEN "after_login" ELSE "login"
            /\ lg' = [lg EXCEPT !.cur = <<cur>>,
                                !.ret = "true",
                                !.warned = ~LeftLoginPage(cur)]
       \/ /\ lg' = [lg EXCEPT !.ret = "false", !.fault = "current_url"]
          /\ UNCHANGED url
    /\ pc' = "login_ret"
    /\ UNCHANGED <<call, gui, timing_stats, ws, stop_in_walk, is_running, session, login_info, page_info, dom, max_depth,
                   max_elements, element_count, stack, shown, indexOf,
                   queryDepths, notices, result, files, failure>>

(* ----------------------------- scrape_page ----------------------------- *)
\* the login step taken whenever login_info is passed
LoginRequiredIfPassed(li) == li.present

\* the login step is taken when login_url, username and password are all there
LoginRequired(li) == li.present /\ Credentials \subseteq li.fields

\* the call scrape_page(url, login_info, max_elements)
ScrapeBegin ==
    /\ pc = "scrape"
    /\ \E li \in LoginInputs, m \in ElementLimits :
         /\ login_info' = li
         /\ max_elements' = m
         /\ pc' = IF LoginRequired(li) THEN "login_get" ELSE "navigate"
    /\ UNCHANGED <<call, gui, timing_stats, ws, stop_in_walk, is_running, session, lg, url, page_info, dom, max_depth,
                   element_count, stack, shown, indexOf, queryDepths, notices,
                   result, files, failure>>

\* the return value of login() ignored
LoginReturnedUnchecked ==
    /\ pc = "login_ret"
    /\ pc' = "navigate"
    /\ UNCHANGED <<call, gui, timing_stats, ws, stop_in_walk, is_running, session, login_info, lg, url, page_info, dom, max_depth,
                   max_elements, element_count, stack, shown, indexOf,
                   queryDepths, notices, result, files, failure>>

\* back from login(): raise when it returned False
LoginReturned ==
    /\ pc = "login_ret"
    /\ IF lg.ret = "true"
       THEN /\ pc' = "navigate"
            /\ UNCHANGED failure
       ELSE /\ pc' = "finally"
            /\ failure' = "login"
    /\ UNCHANGED <<call, gui, timing_stats, ws, stop_in_walk, is_running, session, login_info, lg, url, page_info, dom, max_depth,
                   max_elements, element_count, stack, shown, indexOf,
                   queryDepths, notices, result, files>>

\* driver.get(url); login_info and the outcome of login() are not read again
Navigate ==
    /\ pc = "navigate"
    /\ \E ok \in BOOLEAN :
         IF ok
         THEN /\ url' = "target"
              /\ pc' = "wait"
              /\ ws' = WsAt("Body")
              /\ UNCHANGED failure
         ELSE /\ pc' = "finally"
              /\ failure' = "navigate"
              /\ UNCHANGED <<url, ws>>
    /\ login_info' = NoLogin
    /\ lg' = LgIdle
    /\ UNCHANGED <<call, gui, timing_stats, stop_in_walk, is_running, session, page_info, dom, max_depth,
                   max_elements, element_count, stack, shown, indexOf, queryDepths,
                   notices, result, files>>

Waiting(phase) == pc = "wait" /\ ws.phase = phase

\* the end of the wait with a fault surfaced to the caller of scrape_page
WaitEndsFatal(phase, faults) ==
    /\ ws' = [WsAt(phase) EXCEPT !.faults = ws.faults \cup faults]
    /\ IF faults = {}
       THEN pc' = "page_info" /\ UNCHANGED failure
       ELSE pc' = "finally" /\ failure' = "wait"

\* the wait is over, its locals are gone: scrape_page goes on to read page_info
WaitEnds(phase, faults) ==
    /\ ws' = [WsAt(phase) EXCEPT !.faults = ws.faults \cup faults]
    /\ pc' = "page_info"
    /\ UNCHANGED failure

\* an exception other than TimeoutException leaves scrape_page
WaitRaises ==
    /\ pc' = "finally"
    /\ failure' = "wait"
    /\ UNCHANGED ws

\* WebDriverWait(...).until(presence of <body>): found, or TimeoutException
\* (caught at the end of the if block), or the driver raises something else
WaitBody ==
    /\ Waiting("Body")
    /\ \E out \in {"present", "timeout", "raised"} :
         CASE out = "present" -> /\ ws' = [ws EXCEPT !.phase = "Loading"]
                                 /\ UNCHANGED <<pc, failure>>
           [] out = "timeout" -> WaitEnds("TimedOut", {"timeout"})
           [] out = "raised"  -> WaitRaises
    /\ UNCHANGED <<call, gui, timing_stats, stop_in_walk, is_running, session, login_info, lg, url, page_info, dom,
                   max_depth, max_elements, element_count, stack, shown, indexOf,
                   queryDepths, notices, result, files>>

\* _wait_for_page_load, WebDriverWait(...).until(readyState == 'complete'):
\* TimeoutException propagates to the except clause of scrape_page
WaitReadyState ==
    /\ Waiting("Loading")
    /\ \E out \in {"complete", "timeout", "raised"} :
         CASE out = "complete" -> /\ ws' = [ws EXCEPT !.phase = "PollingHeight"]
                                  /\ UNCHANGED <<pc, failure>>
           [] out = "timeout"  -> WaitEnds("TimedOut", {"timeout"})
           [] out = "raised"   -> WaitRaises
    /\ UNCHANGED <<call, gui, timing_stats, stop_in_walk, is_running, session, login_info, lg, url, page_info, dom,
                   max_depth, max_elements, element_count, stack, shown, indexOf,
                   queryDepths, notices, result, files>>

\* the two samples of a round are equal: "break"
Stable(old, new) == old # -1 /\ new # -1 /\ old = new

\* the range one round too long
LoopHeadLate == ws.iter <= AdditionalWait

\* "for i in range(additional_wait)": another round is due
LoopHead == ws.iter < AdditionalWait

\* one round of the polling loop: two reads of scrollHeight, each a height or
\* an exception (-1; after a first read that raised there is no second read)
PollHeight ==
    /\ Waiting("PollingHeight")
    /\ LoopHead
    /\ \E old \in Heights \cup {-1}, new \in Heights \cup {-1} :
         /\ old = -1 => new = -1
         /\ ws' = [ws EXCEPT !.iter = ws.iter + 1,
                             !.samples = <<old, new>>,
                             !.phase = IF Stable(old, new) THEN "Scrolling" ELSE "PollingHeight",
                             !.faults = IF old = -1 \/ new = -1
                                        THEN ws.faults \cup {"sample"} ELSE ws.faults]
    /\ UNCHANGED <<call, gui, timing_stats, stop_in_walk, pc, is_running, session, login_info, lg, url, page_info,
                   dom, max_depth, max_elements, element_count, stack, shown, indexOf,
                   queryDepths, notices, result, files, failure>>

\* the range is used up without two equal samples
PollExhausted ==
    /\ Waiting("PollingHeight")
    /\ ~LoopHead
    /\ ws' = [ws EXCEPT !.phase = "Scrolling"]
    /\ UNCHANGED <<call, gui, timing_stats, stop_in_walk, pc, is_running, session, login_info, lg, url, page_info,
                   dom, max_depth, max_elements, element_count, stack, shown, indexOf,
                   queryDepths, notices, result, files, failure>>

\* total_height and viewport_height are read; a read that raises, or a
\* viewport of 0 (range() with step 0 raises ValueError), ends the pass in
\* the except clause
ScrollMeasure ==
    /\ Waiting("Scrolling")
    /\ ~ws.measured
    /\ \/ \E total \in Heights, viewport \in Heights :
            IF viewport = 0
            THEN WaitEnds("Settled", {"scroll"})
            ELSE /\ ws' = [ws EXCEPT !.measured = TRUE, !.total = total,
                                     !.viewport = viewport, !.pos = 0]
                 /\ UNCHANGED <<pc, failure>>
       \/ WaitEnds("Settled", {"scroll"})
    /\ UNCHANGED <<call, gui, timing_stats, stop_in_walk, is_running, session, login_info, lg, url, page_info, dom,
                   max_depth, max_elements, element_count, stack, shown, indexOf,
                   queryDepths, notices, result, files>>

\* one round of "for scroll in range(0, total_height, viewport_height)"
ScrollStep ==
    /\ Waiting("Scrolling")
    /\ ws.measured
    /\ ws.pos < ws.total
    /\ \E ok \in BOOLEAN :
         IF ok
         THEN /\ ws' = [ws EXCEPT !.pos = ws.pos + ws.viewport]
              /\ UNCHANGED <<pc, failure>>
         ELSE WaitEnds("Settled", {"scroll"})
    /\ UNCHANGED <<call, gui, timing_stats, stop_in_walk, is_running, session, login_info, lg, url, page_info, dom,
                   max_depth, max_elements, element_count, stack, shown, indexOf,
                   queryDepths, notices, result, files>>

\* the range is used up: scrollTo(0, 0), then _wait_for_page_load returns
ScrollTop ==
    /\ Waiting("Scrolling")
    /\ ws.measured
    /\ ws.pos >= ws.total
    /\ \E ok \in BOOLEAN :
         WaitEnds("Settled", IF ok THEN {} ELSE {"scroll"})
    /\ UNCHANGED <<call, gui, timing_stats, stop_in_walk, is_running, session, login_info, lg, url, page_info, dom,
                   max_depth, max_elements, element_count, stack, shown, indexOf,
                   queryDepths, notices, result, files>>

\* page_info is read from the driver, then _collect_all_elements is called on
\* the page as it is now, any page of the family.  scrape_page passes
\* max_depth=50; the walk is also run with the smaller depths of DepthLimits,
\* which a direct call of _collect_all_elements may pass
CapturePageInfo ==
    /\ pc = "page_info"
    /\ \E ok \in BOOLEAN :
         IF ok
         THEN /\ page_info' = page_info + 1
              /\ \E d \in Doms : dom' = d
              /\ \E d \in DepthLimits : max_depth' = d
              /\ timing_stats' = StartTotal(timing_stats)
              /\ stack' = <<Frame(-1, 0)>>
              /\ pc' = "collect"
              /\ UNCHANGED failure
         ELSE /\ pc' = "finally"
              /\ failure' = "page_info"
              /\ UNCHANGED <<page_info, dom, max_depth, stack, timing_stats>>
    /\ ws' = WsIdle
    /\ UNCHANGED <<call, gui, stop_in_walk, is_running, session, login_info, lg, url, max_elements,
                   element_count, shown, indexOf, queryDepths, notices, result, files>>

(* ------------------------------ the GUI -------------------------------- *)
\* the window as __init__ builds it: the execute button enabled, the stop
\* button disabled, no worker thread
GuiIdle == [execute_button |-> "normal", stop_button |-> "disabled", workers |-> <<>>]

\* start_scraping: refuses while is_running, else starts the worker thread
StartScraping ==
    /\ pc = "idle"
    /\ ~is_running
    /\ is_running' = TRUE
    /\ gui' = [gui EXCEPT !.execute_button = "disabled", !.stop_button = "normal"]
    /\ pc' = "create"
    /\ UNCHANGED <<call, timing_stats, ws, stop_in_walk, session, login_info, lg, url, page_info, dom, max_depth,
                   max_elements, element_count, stack, shown, indexOf,
                   queryDepths, notices, result, files, failure>>

\* stop_scraping: only clears the flag
StopScraping ==
    /\ is_running
    /\ is_running' = FALSE
    /\ stop_in_walk' = (stop_in_walk \/ Collecting)
    /\ UNCHANGED <<call, gui, timing_stats, ws, pc, session, login_info, lg, url, page_info, dom, max_depth,
                   max_elements, element_count, stack, shown, indexOf,
                   queryDepths, notices, result, files, failure>>

\* scribe = WebScribe(...): _setup_driver starts Chrome and configures it.  It
\* raises either before the driver exists ("nodriver": webdriver.Chrome raised)
\* or after ("orphan": implicitly_wait raised once Chrome was running); in both
\* cases the constructor raises and the worker's scribe stays None
CreateScribe ==
    /\ pc = "create"
    /\ \E out \in {"ok", "nodriver", "orphan"} :
         IF out = "ok"
         THEN /\ session' = "open"
              /\ timing_stats' = TimingStatsFor(TRUE)
              /\ pc' = "check_created"
              /\ UNCHANGED failure
         ELSE /\ pc' = "finally"
              /\ failure' = "driver"
              /\ session' = IF out = "orphan" THEN "orphan" ELSE "none"
              /\ UNCHANGED timing_stats
    /\ UNCHANGED <<call, gui, ws, stop_in_walk, is_running, login_info, lg, url, page_info, dom, max_depth,
                   max_elements, element_count, stack, shown, indexOf,
                   queryDepths, notices, result, files>>

\* "if not self.is_running: close; return" after a step of the worker
StopCheck(at, next) ==
    /\ pc = at
    /\ IF is_running
       THEN /\ pc' = next
            /\ UNCHANGED session
       ELSE /\ pc' = "finally"
            /\ session' = "closed"
    /\ UNCHANGED <<call, gui, timing_stats, ws, stop_in_walk, is_running, login_info, lg, url, page_info, dom, max_depth,
                   max_elements, element_count, stack, shown, indexOf,
                   queryDepths, notices, result, files, failure>>

CheckCreated == StopCheck("check_created", "scrape")
CheckScraped == StopCheck("check_scraped", "save_json")

\* save_to_json / save_to_html, each followed by the worker's stop check
SaveFile(at, file, next) ==
    /\ pc = at
    /\ \E ok \in BOOLEAN :
         IF ok
         THEN /\ files' = files \cup {file}
              /\ pc' = IF is_running THEN next ELSE "finally"
              /\ UNCHANGED failure
         ELSE /\ pc' = "finally"
              /\ failure' = "save"
              /\ UNCHANGED files
    /\ UNCHANGED <<call, gui, timing_stats, ws, stop_in_walk, is_running, session, login_info, lg, url, page_info, dom,
                   max_depth, max_elements, element_count, stack, shown, indexOf,
                   queryDepths, notices, result>>

SaveJson == SaveFile("save_json", "json", "save_html")
SaveHtml == SaveFile("save_html", "html", "finally")

\* the finally clause: "if scribe: scribe.close()", then _scraping_finished
\* is scheduled
Finally ==
    /\ pc = "finally"
    /\ session' = IF session = "open" THEN "closed" ELSE session
    /\ pc' = "after"
    /\ UNCHANGED <<call, gui, timing_stats, ws, stop_in_walk, is_running, login_info, lg, url, page_info, dom, max_depth,
                   max_elements, element_count, stack, shown, indexOf,
                   queryDepths, notices, result, files, failure>>

\* _scraping_finished, on the GUI thread
ScrapingFinished ==
    /\ pc = "after"
    /\ is_running' = FALSE
    /\ gui' = [gui EXCEPT !.execute_button = "normal", !.stop_button = "disabled"]
    /\ pc' = "finished"
    /\ UNCHANGED <<call, timing_stats, ws, stop_in_walk, session, login_info, lg, url, page_info, dom, max_depth,
                   max_elements, element_count, stack, shown, indexOf,
                   queryDepths, notices, result, files, failure>>

(* --------------------------- the specification ------------------------- *)
\* a GUI that has not started a run
Fresh ==
    /\ pc = "idle"
    /\ is_running = FALSE
    /\ session = "none"
    /\ login_info = NoLogin
    /\ lg = LgIdle
    /\ url = "blank"
    /\ page_info = 0
    /\ dom = <<>>
    /\ max_depth = DefaultMaxDepth
    /\ max_elements = DefaultMaxElements
    /\ element_count = 0
    /\ stack = <<>>
    /\ shown = [n \in Nodes |-> "unseen"]
    /\ indexOf = [n \in Nodes |-> -1]
    /\ queryDepths = {}
    /\ notices = 0
    /\ result = <<>>
    /\ files = {}
    /\ failure = "none"
    /\ stop_in_walk = FALSE
    /\ ws = WsIdle
    /\ timing_stats = <<>>
    /\ gui = GuiIdle

Init ==
    /\ Fresh
    /\ call = NoCall

Next ==
    \/ StartScraping
    \/ StopScraping
    \/ CreateScribe
    \/ CheckCreated
    \/ ScrapeBegin
    \/ LoginGet
    \/ LoginLocate
    \/ LoginUser
    \/ LoginPass
    \/ LoginSubmit
    \/ LoginWait
    \/ LoginReturned
    \/ Navigate
    \/ WaitBody
    \/ WaitReadyState
    \/ PollHeight
    \/ PollExhausted
    \/ ScrollMeasure
    \/ ScrollStep
    \/ ScrollTop
    \/ CapturePageInfo
    \/ CollectEnter
    \/ VisitElement
    \/ CollectReturn
    \/ CheckScraped
    \/ SaveJson
    \/ SaveHtml
    \/ Finally
    \/ ScrapingFinished

Spec == Init /\ [][Next]_vars

(* ------------------ the page-level wait of scrape_page ---------------- *)
\* scrape_page has just loaded the target page: the state Navigate leaves
InitWait ==
    /\ pc = "wait"
    /\ ws = WsAt("Body")
    /\ url = "target"
    /\ session = "open"
    /\ is_running \in BOOLEAN
    /\ max_elements \in ElementLimits
    /\ login_info = NoLogin
    /\ lg = LgIdle
    /\ page_info = 0
    /\ dom = <<>>
    /\ max_depth = DefaultMaxDepth
    /\ element_count = 0
    /\ stack = <<>>
    /\ shown = [n \in Nodes |-> "unseen"]
    /\ indexOf = [n \in Nodes |-> -1]
    /\ queryDepths = {}
    /\ notices = 0
    /\ result = <<>>
    /\ files = {}
    /\ failure = "none"
    /\ stop_in_walk = FALSE
    /\ call = NoCall
    /\ timing_stats = TimingStatsFor(TRUE)
    /\ gui = [GuiIdle EXCEPT !.execute_button = "disabled", !.stop_button = "normal"]

\* the steps of the worker thread inside the wait
WaitStep ==
    \/ WaitBody
    \/ WaitReadyState
    \/ PollHeight
    \/ PollExhausted
    \/ ScrollMeasure
    \/ ScrollStep
    \/ ScrollTop

NextWait ==
    \/ WaitBody
    \/ WaitReadyState
    \/ PollHeight
    \/ PollExhausted
    \/ ScrollMeasure
    \/ ScrollStep
    \/ ScrollTop
    \/ StopScraping

\* the worker thread keeps running: every sleep and every driver call of the
\* wait returns or raises
SpecWait == InitWait /\ [][NextWait]_vars /\ WF_vars(WaitStep)

(* ------------------- _get_element_info called directly ---------------- *)
\* the calls _get_element_info(element, index, include_xpath, include_css_selector)
\* on an element whose accessors in `faults` raise
RecorderCalls ==
    [op : {"record"}, node : Nodes, index : 0 .. MaxLimit, faults : SUBSET RecorderFields,
     include_xpath : BOOLEAN, include_css_selector : BOOLEAN, out : {<<>>}]

InitRecorder ==
    /\ Fresh
    /\ call \in RecorderCalls

RecordElement ==
    /\ call.op = "record"
    /\ call.out = <<>>
    /\ call' = [call EXCEPT !.out = <<ElementInfo(call.node, call.index, call.faults,
                                                  call.include_xpath, call.include_css_selector)>>]
    /\ UNCHANGED <<gui, timing_stats, ws, stop_in_walk, pc, is_running, session, login_info, lg, url, page_info,
                   dom, max_depth, max_elements, element_count, stack, shown, indexOf,
                   queryDepths, notices, result, files, failure>>

NextRecorder == RecordElement

SpecRecorder == InitRecorder /\ [][NextRecorder]_vars

(* ------------- _get_xpath and _get_css_selector called directly -------- *)
\* the document the two scripts run in: page[k] is a node, in document order;
\* parentNode 0 is the document itself, node 1 is <html>, node 2 is <body>
DocHtml == 1
DocBody == 2
ElementNode == 1
TextNode == 3

Ids == {"", "x"}
\* className, character by character: no class, or class="a b"
ClassNames == { <<>>, <<"a", " ", "b">> }

HtmlNodes == [nodeType : {ElementNode}, tagName : {"HTML"}, id : {""}, className : {<<>>},
              parentNode : {0}]
BodyNodes == [nodeType : {ElementNode}, tagName : {"BODY"}, id : Ids, className : ClassNames,
              parentNode : {DocHtml}]
InnerNodes ==
    [nodeType : {ElementNode}, tagName : {"DIV", "SPAN"}, id : Ids, className : ClassNames,
     parentNode : DocBody .. (MaxLimit + 1)]
    \cup [nodeType : {TextNode}, tagName : {"undefined"}, id : {"undefined"},
          className : {<<>>}, parentNode : DocBody .. (MaxLimit + 1)]

\* every document with at most MaxLimit nodes inside <body>: the parent of a
\* node is an element that precedes it
Pages ==
    UNION { { h \o b \o inner :
                h \in {<<x>> : x \in HtmlNodes}, b \in {<<x>> : x \in BodyNodes},
                inner \in { f \in [1 .. m -> InnerNodes] :
                              \A k \in 1 .. m :
                                  /\ f[k].parentNode < k + 2
                                  /\ f[k].parentNode > DocBody =>
                                        f[f[k].parentNode - 2].nodeType = ElementNode } }
            : m \in 0 .. MaxLimit }

\* String.prototype.toLowerCase on the tag names of the document
ToLowerCase(name) ==
    CASE name = "HTML" -> "html"
      [] name = "BODY" -> "body"
      [] name = "DIV"  -> "div"
      [] name = "SPAN" -> "span"

\* parentNode.childNodes: the children of p, text nodes included, in order
ChildNodes(page, p) ==
    SelectSeq([k \in 1 .. Len(page) |-> k], LAMBDA k : page[k].parentNode = p)

\* the for loop of getElementXPath with every element sibling counted
RECURSIVE SiblingIndexAnyTag(_, _, _, _, _)
SiblingIndexAnyTag(page, e, siblings, i, ix) ==
    IF siblings[i] = e THEN ix + 1
    ELSE SiblingIndexAnyTag(page, e, siblings, i + 1,
                            IF page[siblings[i]].nodeType = ElementNode
                            THEN ix + 1 ELSE ix)

\* the for loop of getElementXPath from round i on, ix being the counter:
\* the value of ix + 1 in the round that meets the element itself
RECURSIVE SiblingIndex(_, _, _, _, _)
SiblingIndex(page, e, siblings, i, ix) ==
    IF siblings[i] = e THEN ix + 1
    ELSE SiblingIndex(page, e, siblings, i + 1,
                      IF /\ page[siblings[i]].nodeType = ElementNode
                         /\ page[siblings[i]].tagName = page[e].tagName
                      THEN ix + 1 ELSE ix)

\* the script of _get_xpath
RECURSIVE GetElementXPath(_, _)
GetElementXPath(page, e) ==
    IF page[e].id # "" THEN "//*[@id='" \o page[e].id \o "']"
    ELSE IF e = DocBody THEN "/html/body"
    ELSE GetElementXPath(page, page[e].parentNode)
            \o "/" \o ToLowerCase(page[e].tagName)
            \o "[" \o ToString(SiblingIndex(page, e, ChildNodes(page, page[e].parentNode), 1, 0))
            \o "]"

\* String.prototype.split(" "): the pieces between single spaces, the piece
\* being read kept in piece
RECURSIVE Split(_, _)
Split(chars, piece) ==
    IF chars = <<>> THEN <<piece>>
    ELSE IF Head(chars) = " " THEN <<piece>> \o Split(Tail(chars), "")
    ELSE Split(Tail(chars), piece \o Head(chars))

\* Array.prototype.join
RECURSIVE Join(_, _)
Join(pieces, sep) ==
    IF pieces = <<>> THEN ""
    ELSE IF Len(pieces) = 1 THEN pieces[1]
    ELSE pieces[1] \o sep \o Join(Tail(pieces), sep)

\* one round of the while loop: the selector of one element
Selector(node) ==
    IF node.className # <<>>
    THEN ToLowerCase(node.tagName) \o "." \o Join(Split(node.className, ""), ".")
    ELSE ToLowerCase(node.tagName)

\* the while loop stopped at <body>
RECURSIVE CssPathFromBody(_, _, _)
CssPathFromBody(page, e, path) ==
    IF e = DocHtml THEN path
    ELSE CssPathFromBody(page, page[e].parentNode, <<Selector(page[e])>> \o path)

\* the while loop of getElementCSSSelector: it climbs as long as element is an
\* element node, so it ends at the document (0), above <html>
RECURSIVE CssPath(_, _, _)
CssPath(page, e, path) ==
    IF e = 0 THEN path
    ELSE CssPath(page, page[e].parentNode, <<Selector(page[e])>> \o path)

\* the script of _get_css_selector
GetElementCSSSelector(page, e) ==
    IF page[e].id # "" THEN "#" \o page[e].id
    ELSE Join(CssPath(page, e, <<>>), " > ")

\* the calls _get_xpath(element) and _get_css_selector(element): element is an
\* element of the <body> subtree, raises tells whether execute_script raises
LocatorCalls ==
    { c \in [op : {"xpath", "css_selector"}, page : Pages, node : DocBody .. (MaxLimit + 2),
             raises : BOOLEAN, out : {<<>>}] :
        /\ c.node <= Len(c.page)
        /\ c.page[c.node].nodeType = ElementNode }

InitLocator ==
    /\ Fresh
    /\ call \in LocatorCalls

GetXPath ==
    /\ call.op = "xpath"
    /\ call.out = <<>>
    /\ call' = [call EXCEPT !.out = <<IF call.raises THEN ""
                                      ELSE GetElementXPath(call.page, call.node)>>]
    /\ UNCHANGED <<gui, timing_stats, ws, stop_in_walk, pc, is_running, session, login_info, lg, url, page_info,
                   dom, max_depth, max_elements, element_count, stack, shown, indexOf,
                   queryDepths, notices, result, files, failure>>

GetCssSelector ==
    /\ call.op = "css_selector"
    /\ call.out = <<>>
    /\ call' = [call EXCEPT !.out = <<IF call.raises THEN ""
                                      ELSE GetElementCSSSelector(call.page, call.node)>>]
    /\ UNCHANGED <<gui, timing_stats, ws, stop_in_walk, pc, is_running, session, login_info, lg, url, page_info,
                   dom, max_depth, max_elements, element_count, stack, shown, indexOf,
                   queryDepths, notices, result, files, failure>>

NextLocator ==
    \/ GetXPath
    \/ GetCssSelector

SpecLocator == InitLocator /\ [][NextLocator]_vars

(* ------------- the same page walked twice by two WebScribe objects ----- *)
\* Two traversals of one page whose collaborator answers the same way both
\* times (call.script).  The first runs with timing enabled and a cap of
\* ElementLimits; the second either with timing disabled and the same cap
\* (call.vary = "timing") or with the default cap (call.vary = "cap").
\* call.first keeps what the first traversal returned.
ReplayNodes == 3

ReplayDoms == {d \in Doms : Len(d) < ReplayNodes}

\* what one element does when asked: hidden and detached elements are asked
\* nothing more, a displayed one may fail its recording or its find_elements
Behaviours ==
    {[displayed |-> "visible", faults |-> f, found |-> b] : f \in RecorderFaults, b \in BOOLEAN}
    \cup {[displayed |-> x, faults |-> {}, found |-> TRUE] : x \in {"hidden", "fault"}}

FaultFree == {b \in Behaviours : b.displayed # "fault" /\ b.faults = {} /\ b.found}

Scripts(d, behaviours) ==
    {[n \in Nodes |-> IF n \in DomNodes(d) THEN f[n]
                      ELSE [displayed |-> "hidden", faults |-> {}, found |-> TRUE]] :
        f \in [DomNodes(d) -> behaviours]}

\* the state in which scrape_page calls _collect_all_elements on page d with a
\* collaborator following script s
InitReplay ==
    /\ \E d \in ReplayDoms, vary \in {"timing", "cap"} :
         /\ dom = d
         /\ \E s \in Scripts(d, IF vary = "cap" THEN FaultFree ELSE Behaviours) :
              call = [op |-> "replay", script |-> s, vary |-> vary, first |-> <<>>]
    /\ max_elements \in ElementLimits
    /\ timing_stats = StartTotal(TimingStatsFor(TRUE))
    /\ pc = "collect"
    /\ stack = <<Frame(-1, 0)>>
    /\ max_depth = DefaultMaxDepth
    /\ page_info = 1
    /\ url = "target"
    /\ session = "open"
    /\ is_running = TRUE
    /\ gui = [GuiIdle EXCEPT !.execute_button = "disabled", !.stop_button = "normal"]
    /\ login_info = NoLogin
    /\ lg = LgIdle
    /\ element_count = 0
    /\ shown = [n \in Nodes |-> "unseen"]
    /\ indexOf = [n \in Nodes |-> -1]
    /\ queryDepths = {}
    /\ notices = 0
    /\ result = <<>>
    /\ files = {}
    /\ failure = "none"
    /\ stop_in_walk = FALSE
    /\ ws = WsIdle

\* the first traversal has returned: a second WebScribe object walks the same
\* page, its counter, forest and notices starting afresh
Replay ==
    /\ Scripted
    /\ pc = "check_scraped"
    /\ call.first = <<>>
    /\ call' = [call EXCEPT !.first = <<[result |-> result[1],
                                         max_elements |-> max_elements,
                                         timing_stats |-> timing_stats]>>]
    /\ IF call.vary = "timing"
       THEN /\ timing_stats' = StartTotal(TimingStatsFor(FALSE))
            /\ UNCHANGED max_elements
       ELSE /\ timing_stats' = StartTotal(TimingStatsFor(TRUE))
            /\ max_elements' = DefaultMaxElements
    /\ pc' = "collect"
    /\ stack' = <<Frame(-1, 0)>>
    /\ element_count' = 0
    /\ shown' = [n \in Nodes |-> "unseen"]
    /\ indexOf' = [n \in Nodes |-> -1]
    /\ queryDepths' = {}
    /\ notices' = 0
    /\ result' = <<>>
    /\ UNCHANGED <<gui, ws, stop_in_walk, is_running, session, login_info, lg, url,
                   page_info, dom, max_depth, files, failure>>

NextReplay ==
    \/ CollectEnter
    \/ VisitElement
    \/ CollectReturn
    \/ Replay

SpecReplay == InitReplay /\ [][NextReplay]_vars

(* ----------------- the window with several worker threads ------------- *)
\* The handlers of the window and the worker threads they start, with
\* scrape_page as one step that returns or raises.  gui.workers[k] is the
\* k-th thread started: `at` its position in _run_scraping, `files` what it
\* has saved, `stopped` whether stop_scraping ran while it was inside
\* scrape_page.
MaxWorkers == 2

Workers == 1 .. MaxWorkers
NewWorker == [at |-> "create", files |-> {}, stopped |-> FALSE]
Started(k) == k <= Len(gui.workers)
At(k, at) == Started(k) /\ gui.workers[k].at = at

\* the thread object is alive until _run_scraping has left its finally clause
Alive(k) == Started(k) /\ gui.workers[k].at \notin {"scheduled", "finished"}

InitGui ==
    /\ Fresh
    /\ call = NoCall

\* start_scraping, from the execute button (which must be enabled to be
\* pressed) or from the Return key in the URL field (bound at line 95, which
\* no widget state disables); the inputs are valid
GuiStartScraping ==
    /\ \E via \in {"button", "return"} : via = "button" => gui.execute_button = "normal"
    /\ ~is_running
    /\ Len(gui.workers) < MaxWorkers
    /\ is_running' = TRUE
    /\ gui' = [execute_button |-> "disabled", stop_button |-> "normal",
               workers |-> Append(gui.workers, NewWorker)]
    /\ UNCHANGED <<call, timing_stats, ws, stop_in_walk, pc, session, login_info, lg, url,
                   page_info, dom, max_depth, max_elements, element_count, stack, shown,
                   indexOf, queryDepths, notices, result, files, failure>>

\* stop_scraping, from the stop button: clears the flag and nothing else
GuiStopScraping ==
    /\ gui.stop_button = "normal"
    /\ is_running
    /\ is_running' = FALSE
    /\ gui' = [gui EXCEPT !.workers =
                 [k \in DOMAIN gui.workers |->
                    IF gui.workers[k].at = "scrape"
                    THEN [gui.workers[k] EXCEPT !.stopped = TRUE]
                    ELSE gui.workers[k]]]
    /\ UNCHANGED <<call, timing_stats, ws, stop_in_walk, pc, session, login_info, lg, url,
                   page_info, dom, max_depth, max_elements, element_count, stack, shown,
                   indexOf, queryDepths, notices, result, files, failure>>

\* worker k moves to position `at`
Moves(k, at) == gui' = [gui EXCEPT !.workers[k].at = at]

\* a call of the worker that returns (on to `next`) or raises (the except
\* clause, then the finally clause)
WorkerCall(k, at, next) ==
    /\ At(k, at)
    /\ \E ok \in BOOLEAN : Moves(k, IF ok THEN next ELSE "finally")

\* "if not self.is_running: ... return": the return runs the finally clause
WorkerStopCheck(k, at, next) ==
    /\ At(k, at)
    /\ Moves(k, IF is_running THEN next ELSE "finally")

\* save_to_json / save_to_html: the file is written, or the call raises
WorkerSave(k, at, file, next) ==
    /\ At(k, at)
    /\ \E ok \in BOOLEAN :
         IF ok
         THEN gui' = [gui EXCEPT !.workers[k].at = next,
                                 !.workers[k].files = gui.workers[k].files \cup {file}]
         ELSE Moves(k, "finally")

\* the callback scheduled only for a worker that has saved something: the
\* thread of any other run ends with nothing scheduled
WorkerFinallyAfterSave(k) ==
    /\ At(k, "finally")
    /\ Moves(k, IF gui.workers[k].files # {} THEN "scheduled" ELSE "ended")

\* the finally clause: close the session if there is one, swallowing what
\* close() raises, and schedule _scraping_finished on the GUI thread
WorkerFinally(k) ==
    /\ At(k, "finally")
    /\ Moves(k, "scheduled")

\* one step of the thread running _run_scraping
WorkerStep(k) ==
    /\ \/ WorkerCall(k, "create", "check_created")
       \/ WorkerStopCheck(k, "check_created", "scrape")
       \/ WorkerCall(k, "scrape", "check_scraped")
       \/ WorkerStopCheck(k, "check_scraped", "save_json")
       \/ WorkerSave(k, "save_json", "json", "check_json")
       \/ WorkerStopCheck(k, "check_json", "save_html")
       \/ WorkerSave(k, "save_html", "html", "check_html")
       \/ WorkerStopCheck(k, "check_html", "finally")
       \/ WorkerFinally(k)
    /\ UNCHANGED <<call, timing_stats, ws, stop_in_walk, pc, is_running, session, login_info,
                   lg, url, page_info, dom, max_depth, max_elements, element_count, stack,
                   shown, indexOf, queryDepths, notices, result, files, failure>>

\* _scraping_finished, run by the main loop for worker k
GuiScrapingFinished(k) ==
    /\ At(k, "scheduled")
    /\ is_running' = FALSE
    /\ gui' = [gui EXCEPT !.execute_button = "normal", !.stop_button = "disabled",
                          !.workers[k].at = "finished"]
    /\ UNCHANGED <<call, timing_stats, ws, stop_in_walk, pc, session, login_info, lg, url,
                   page_info, dom, max_depth, max_elements, element_count, stack, shown,
                   indexOf, queryDepths, notices, result, files, failure>>

NextGui ==
    \/ GuiStartScraping
    \/ GuiStopScraping
    \/ \E k \in Workers : WorkerStep(k)
    \/ \E k \in Workers : GuiScrapingFinished(k)

\* every thread goes on running, and the main loop runs what was scheduled
SpecGui ==
    /\ InitGui
    /\ [][NextGui]_vars
    /\ \A k \in Workers : WF_vars(WorkerStep(k)) /\ WF_vars(GuiScrapingFinished(k))

(* ---------------- _generate_elements_html called directly -------------- *)
\* "if depth > 10: return" at the head of _generate_elements_html
HtmlDepthLimit == 10

\* the deepest nesting of the forests the report is generated for
MaxNesting == 12

\* a forest as the walk builds it: n records nested one inside the other
\* (indices i .. n-1 from the record at level i down), the record of index
\* `stub` being the stub of a failed recording, and the record at level `twig`
\* having a leaf (index n) as its last child
RECURSIVE Chain(_, _, _, _)
Chain(i, n, twig, stub) ==
    IF i >= n THEN <<>>
    ELSE LET info == GetElementInfo(IF i = 0 THEN Body ELSE 1, i,
                                    IF stub = i THEN {"tag_name"} ELSE {})
             leaf == IF twig = i
                     THEN <<AttachChildren(GetElementInfo(2, n, {}), <<>>)>>
                     ELSE <<>>
         IN <<AttachChildren(info, Chain(i + 1, n, twig, stub) \o leaf)>>

HtmlCalls ==
    {[op |-> "html", elements |-> Chain(0, n, twig, stub), out |-> <<>>] :
        n \in 0 .. MaxNesting, twig \in -1 .. (MaxNesting - 1), stub \in -1 .. 1}

InitHtml ==
    /\ Fresh
    /\ call \in HtmlCalls

\* element.get(key, default)
Get(element, key, default) == IF key \in DOMAIN element THEN element[key] ELSE default

\* the truth value Python gives the text, a dict or a locator of a record:
\* the empty string and the empty dict ("{}") are false
Truthy(value) == value \notin {"", "{}"}

\* one piece of the generated markup
Piece(kind, value) == <<[kind |-> kind, value |-> value]>>

\* a detail row, written only when the field has a true value
Row(element, key) ==
    IF Truthy(Get(element, key, "")) THEN Piece(key, Get(element, key, "")) ELSE <<>>

\* _generate_elements_html(elements, depth): the markup as a sequence of
\* pieces, a piece of kind "element" opening the node of one record
RECURSIVE GenerateElementsHtml(_, _)
GenerateElementsHtml(elements, depth) ==
    IF depth > HtmlDepthLimit \/ elements = <<>> THEN <<>>
    ELSE LET element == Head(elements)
             children == Get(element, "children", <<>>)
             children_count == Get(element, "children_count", 0)
         IN Piece("element", Get(element, "tag_name", ""))
            \o Piece("index", ToString(Get(element, "index", 0)))
            \o Row(element, "text")
            \o Row(element, "attributes")
            \o Row(element, "location")
            \o Row(element, "size")
            \o Piece("is_displayed", IF Get(element, "is_displayed", FALSE) THEN "yes" ELSE "no")
            \o Piece("is_enabled", IF Get(element, "is_enabled", FALSE) THEN "yes" ELSE "no")
            \o Row(element, "xpath")
            \o Row(element, "css_selector")
            \o (IF children_count > 0
                THEN Piece("children_count", ToString(children_count)) ELSE <<>>)
            \o (IF children # <<>>
                THEN Piece("children", "open")
                     \o GenerateElementsHtml(children, depth + 1)
                     \o Piece("children", "close")
                ELSE <<>>)
            \o Piece("element_end", "")
            \o GenerateElementsHtml(Tail(elements), depth)

GenerateHtml ==
    /\ call.op = "html"
    /\ call.out = <<>>
    /\ call' = [call EXCEPT !.out = <<GenerateElementsHtml(call.elements, 0)>>]
    /\ UNCHANGED <<gui, timing_stats, ws, stop_in_walk, pc, is_running, session, login_info, lg, url, page_info,
                   dom, max_depth, max_elements, element_count, stack, shown, indexOf,
                   queryDepths, notices, result, files, failure>>

NextHtml == GenerateHtml

SpecHtml == InitHtml /\ [][NextHtml]_vars

(* ------------------------- forests of records -------------------------- *)
RECURSIVE CountRecords(_)
CountRecords(forest) ==
    IF forest = <<>> THEN 0
    ELSE 1 + CountRecords(Head(forest).children) + CountRecords(Tail(forest))

\* the index fields met by a pre-order depth-first walk
RECURSIVE PreOrder(_)
PreOrder(forest) ==
    IF forest = <<>> THEN <<>>
    ELSE <<Head(forest).index>> \o PreOrder(Head(forest).children) \o PreOrder(Tail(forest))

\* every record of the forest, flattened
RECURSIVE Records(_)
Records(forest) ==
    IF forest = <<>> THEN {}
    ELSE {Head(forest)} \cup Records(Head(forest).children) \cup Records(Tail(forest))

\* no record at nesting level >= limit has children (level is that of the forest's roots)
RECURSIVE LeafAtOrBelow(_, _, _)
LeafAtOrBelow(forest, level, limit) ==
    \A k \in 1 .. Len(forest) :
        /\ level >= limit => forest[k].children = <<>>
        /\ LeafAtOrBelow(forest[k].children, level + 1, limit)

Returned == result # <<>>
Elements == result[1].elements
Recorded == {n \in Nodes : indexOf[n] # -1}

(* ------------------------------- claims -------------------------------- *)

\* C1: total_elements of the returned result equals the number of records
\* reachable from result.elements through children, counted recursively.
C1_TotalCountsForest ==
    Returned => result[1].total_elements = CountRecords(Elements)

\* C2: the indices of the returned forest are met in strictly increasing order
\* by a pre-order walk and are exactly 0 .. total_elements-1.
C2_IndicesArePreOrderRange ==
    Returned =>
        /\ \A k \in 1 .. Len(PreOrder(Elements)) : PreOrder(Elements)[k] = k - 1
        /\ Len(PreOrder(Elements)) = result[1].total_elements

\* C3: the shared counter never goes above max_elements, and the returned
\* forest (counted recursively, and as reported) holds at most max_elements records.
C3_NeverExceedsCap ==
    /\ element_count <= max_elements
    /\ Returned => /\ CountRecords(Elements) <= max_elements
                   /\ result[1].total_elements <= max_elements

C3_Witness ==
    /\ Returned
    /\ max_elements = MaxLimit
    /\ CountRecords(Elements) = max_elements
    /\ \E n \in DomNodes(dom) : shown[n] = "unseen"

\* C4: the walk never recurses past max_depth: a record at nesting level
\* d >= max_depth (body at level 0) has no children, in the returned forest and
\* in every partial list held during the walk, and no call at a depth
\* >= max_depth enumerates elements.
C4_DepthBounded ==
    /\ \A d \in queryDepths : d < max_depth
    /\ \A k \in 1 .. Len(stack) :
          /\ stack[k].depth <= max_depth
          /\ LeafAtOrBelow(stack[k].data, stack[k].depth, max_depth)
    /\ Returned => LeafAtOrBelow(Elements, 0, max_depth)

C4_Witness ==
    /\ Returned
    /\ max_depth = 2
    /\ max_elements = DefaultMaxElements
    /\ Len(dom) >= 2 /\ dom[1] = 0 /\ dom[2] = 1
    /\ indexOf[1] = 1
    /\ shown[2] = "unseen"
    /\ Elements[1].children[1].children = <<>>

\* C5: an element whose displayed check is false gets no record, none of its
\* descendants is queried or recorded, and it consumes no index or budget:
\* the counter equals the number of recorded elements and their indices are
\* 0 .. element_count-1.
C5_HiddenPruned ==
    /\ \A n \in DomNodes(dom) :
          shown[n] = "hidden" =>
              /\ indexOf[n] = -1
              /\ \A m \in DomNodes(dom) :
                    IsDescendant(dom, m, n) => shown[m] = "unseen" /\ indexOf[m] = -1
    /\ Cardinality(Recorded) = element_count
    /\ {indexOf[n] : n \in Recorded} = 0 .. (element_count - 1)

C5_Witness ==
    /\ Returned
    /\ Len(dom) = 3 /\ dom[1] = 0 /\ dom[2] = 1 /\ dom[3] = 0
    /\ shown[1] = "hidden"
    /\ shown[2] = "unseen"
    /\ indexOf[3] = 1
    /\ max_elements = DefaultMaxElements
    /\ max_depth = DefaultMaxDepth

\* C6: once a stop has been requested during the walk, the collector sees it
\* at the next element boundary and records no further element.
C6_StopHaltsRecording ==
    [][(Collecting /\ stop_in_walk) => element_count' = element_count]_vars

\* a forest in which every record has children and children_count = len(children)
RECURSIVE ChildrenCounted(_)
ChildrenCounted(forest) ==
    \A k \in 1 .. Len(forest) :
        /\ {"children", "children_count"} \subseteq DOMAIN forest[k]
        /\ forest[k].children_count = Len(forest[k].children)
        /\ ChildrenCounted(forest[k].children)

\* C7: every record of the forest, the {index, error} stub included, has a
\* children list and children_count = len(children); so has every record
\* already appended to a list during the walk.
C7_ChildrenCountMatches ==
    /\ \A k \in 1 .. Len(stack) : ChildrenCounted(stack[k].data)
    /\ Returned => ChildrenCounted(Elements)

C7_Witness ==
    /\ Returned
    /\ Len(Elements) = 1
    /\ "error" \notin DOMAIN Elements[1]
    /\ Elements[1].children_count = 2
    /\ "error" \in DOMAIN Elements[1].children[1]
    /\ Elements[1].children[1].children_count = 1
    /\ Elements[1].children[2].children_count = 0

\* the page <body><div id="a">Hi</div><div class="b"><span>x</span></div></body>,
\* every element displayed and recorded without fault, default limits
C8_Page ==
    /\ dom = <<0, 0, 2>>
    /\ \A n \in DomNodes(dom) : shown[n] = "visible"
    /\ max_depth = DefaultMaxDepth
    /\ max_elements = DefaultMaxElements
    /\ \A r \in Records(Elements) : "error" \notin DOMAIN r

\* C8: for that page total_elements is 4, body, div#a, div.b and span carry
\* the indices 0, 1, 2, 3 in that order, and div.b has children_count 1.
C8_EndToEnd ==
    (Returned /\ C8_Page) =>
        /\ result[1].total_elements = 4
        /\ \A n \in 0 .. 3 : indexOf[n] = n
        /\ PreOrder(Elements) = <<0, 1, 2, 3>>
        /\ Elements[1].tag_name = "body"
        /\ Elements[1].children[1].tag_name = "div"
        /\ Elements[1].children[2].tag_name = "div"
        /\ Elements[1].children[2].children_count = 1
        /\ Elements[1].children[2].children[1].tag_name = "span"

\* C9: a login run in which no username selector was given and none was
\* detected returns False at the username step: it never reaches the
\* password or submit step, and issues neither a click nor a RETURN keystroke.
C9_NoUsernameFailsFast ==
    (InLogin /\ pc \notin {"login_get", "login_locate"} /\ "username_selector" \notin lg.sels) =>
        /\ pc \in {"login_user", "login_ret"}
        /\ pc = "login_ret" => lg.ret = "false"
        /\ lg.clicks = 0
        /\ lg.keys = 0
        /\ lg.filled = {}

C9_Witness ==
    /\ pc = "login_ret"
    /\ lg.ret = "false"
    /\ lg.sels = {"password_selector", "submit_selector"}
    /\ login_info.fields = Credentials

\* C10: when the login that scrape_page ran returned False, scrape_page raises
\* to its caller: the target URL is never loaded, page info is not captured,
\* the walk does not start, no result is returned and no file is written.
C10_LoginFailureAborts ==
    (lg.ret = "false" /\ pc # "login_ret") =>
        /\ failure = "login"
        /\ pc \in {"finally", "after", "finished"}
        /\ url # "target"
        /\ page_info = 0
        /\ stack = <<>>
        /\ queryDepths = {}
        /\ element_count = 0
        /\ ~Returned
        /\ files = {}

C10_Witness ==
    /\ pc = "finished"
    /\ failure = "login"
    /\ lg.ret = "false"
    /\ session = "closed"
    /\ files = {}
    /\ ~Returned

\* the outermost call (parent None) found no <body>: both lookups raised and
\* the outer except clause left elements_data empty
RootNotFound ==
    /\ Collecting
    /\ Len(stack) = 1
    /\ Top.parent = -1
    /\ Top.pc = "loop"
    /\ Top.elems = <<>>

\* C11: when the walk is started with a null root and no <body> can be
\* resolved, the operation ends with a failure surfaced to its caller: it does
\* not return a normal result holding an empty element list.
C11_RootNotFoundSurfaces ==
    [][(RootNotFound /\ ~Collecting') => (failure' = "collect" /\ ~Returned')]_vars

\* the value the record is to hold for a field whose accessor raised
ZeroValue(field) ==
    CASE field \in {"text", "xpath", "css_selector"}   -> ""
      [] field \in {"is_displayed", "is_enabled"}     -> FALSE
      [] field \in {"attributes", "location", "size"} -> "{}"

Recorded1 == call.op = "record" /\ call.out # <<>>

\* C12: the recorder treats each field independently.  When one accessor other
\* than tag_name raises (text, is_displayed, is_enabled, attributes, location,
\* size, xpath, css_selector), the record keeps the real value of every other
\* field and only the faulting field has its zero value; the {index, error}
\* stub is returned only when tag_name raises.
C12_FieldsIndependent ==
    Recorded1 =>
        LET r == call.out[1]
            asked == (RecorderFields \ {"tag_name"})
                        \ ((IF call.include_xpath THEN {} ELSE {"xpath"})
                            \cup (IF call.include_css_selector THEN {} ELSE {"css_selector"}))
        IN /\ ("error" \in DOMAIN r) <=> ("tag_name" \in call.faults)
           /\ (Cardinality(call.faults) = 1 /\ "tag_name" \notin call.faults) =>
                 /\ r.tag_name = TagOf(call.node)
                 /\ \A f \in asked :
                       r[f] = IF f \in call.faults THEN ZeroValue(f) ELSE Answer(call.node, f)

\* n raised in the walk's own is_displayed() call
Detached(n) == n \in DomNodes(dom) /\ shown[n] = "fault"

\* the siblings that follow n in the enumeration of its parent
LaterSiblings(n) ==
    IF n = Body THEN {} ELSE {m \in DomNodes(dom) : m > n /\ dom[m] = dom[n]}

\* once the walk is over every sibling after a skipped element was visited
\* (unless the element cap ended the loop first) and, if visible, recorded
SiblingsStillVisited ==
    \A n \in Nodes : Detached(n) =>
        \A m \in LaterSiblings(n) :
            /\ Returned => (shown[m] # "unseen" \/ CapReached)
            /\ (shown[m] = "visible" /\ pc # "collect") => indexOf[m] # -1

Stubs(forest) == {r \in Records(forest) : "error" \in DOMAIN r}

C14_AwaitingEndsInSuccess ==
    [][(pc = "login_wait" /\ pc' # pc) => (pc' = "login_ret" /\ lg'.ret = "true")]_vars

\* C14 (amended): from AwaitingTransition login returns True whenever
\* current_url can be read, whether or not it differs from the login URL and
\* whether or not it contains "login" or "signin"; an URL that does not count
\* as left only sets the warning.  Login returns False from there only when
\* reading current_url raises.
C14_SuccessUnlessUrlUnreadable ==
    [][(pc = "login_wait" /\ pc' # pc) =>
        /\ pc' = "login_ret"
        /\ lg'.filled = {"username", "password"}
        /\ IF lg'.fault = "current_url"
           THEN lg'.ret = "false" /\ lg'.cur = <<>>
           ELSE /\ lg'.ret = "true"
                /\ lg'.cur \in {<<cur>> : cur \in CurrentUrls}
                /\ lg'.warned <=> ~LeftLoginPage(lg'.cur[1])]_vars

C14_Witness ==
    /\ pc = "login_ret"
    /\ lg.ret = "true"
    /\ lg.warned
    /\ lg.cur = <<[differs |-> FALSE, login |-> TRUE, signin |-> FALSE]>>
    /\ lg.clicks = 1

\* the submit step was taken with no submit selector, supplied or detected
SubmittedWithoutSelector ==
    /\ pc \in {"login_wait", "login_ret"}
    /\ "submit_selector" \notin lg.sels
    /\ lg.filled = {"username", "password"}

\* C20: a login with no submit selector (none supplied, no candidate visible)
\* does not fail for the lack of it: after both fields were filled it sends
\* RETURN to the password field, clicks nothing, and goes on to
\* AwaitingTransition; it stops before only when send_keys itself raises.
C20_NoSubmitFallsBackToReturn ==
    SubmittedWithoutSelector =>
        /\ lg.keys = 1
        /\ lg.clicks = 0
        /\ lg.fault \in {"none", "keystroke", "current_url"}
        /\ lg.fault # "keystroke" =>
              (pc = "login_wait" \/ lg.cur # <<>> \/ lg.fault = "current_url")
        /\ pc = "login_wait" => (lg.ret = "none" /\ lg.fault = "none")

C20_Witness ==
    /\ pc = "login_wait"
    /\ lg.sels = {"username_selector", "password_selector"}
    /\ lg.filled = {"username", "password"}
    /\ lg.keys = 1
    /\ lg.clicks = 0
    /\ login_info.fields = Credentials

\* a script of the locator synthesizer ran to its end for call.node
Located(op) == call.op = op /\ call.out # <<>> /\ ~call.raises

\* the same-tag element siblings of e that precede it under its parent
SameTagBefore(page, e) ==
    {m \in 1 .. (e - 1) : /\ page[m].parentNode = page[e].parentNode
                          /\ page[m].nodeType = ElementNode
                          /\ page[m].tagName = page[e].tagName}

\* the XPath C15 describes, up from e until an id or <body> is met
RECURSIVE XPathByRule(_, _)
XPathByRule(page, e) ==
    CASE page[e].id = "x" -> "//*[@id='x']"
      [] page[e].id = "" /\ e = DocBody -> "/html/body"
      [] OTHER -> XPathByRule(page, page[e].parentNode)
                    \o (IF page[e].tagName = "DIV" THEN "/div[" ELSE "/span[")
                    \o ToString(Cardinality(SameTagBefore(page, e)) + 1) \o "]"

\* C15: the XPath of an element with a non-empty id x is exactly //*[@id='x'];
\* that of <body> without id is /html/body; that of any other element is the
\* XPath of its parent followed by /<lowercased tag>[k], k being its 1-based
\* position among the same-tag element siblings under that parent.
C15_XPathByRule ==
    Located("xpath") => call.out[1] = XPathByRule(call.page, call.node)

C15_Witness ==
    /\ Located("xpath")
    /\ Len(call.page) = 4
    /\ call.node = 4
    /\ call.page[3].tagName = "SPAN"
    /\ call.page[3].parentNode = DocBody
    /\ call.page[4].parentNode = DocBody
    /\ call.out[1] = "/html/body/div[1]"

\* the case C16 names: a <div class="a b"> that is a child of <body>, in a
\* document without any id (and <body> without class)
DivAB(page, e) ==
    /\ page[e].tagName = "DIV"
    /\ page[e].className = <<"a", " ", "b">>
    /\ page[e].parentNode = DocBody
    /\ page[DocBody].className = <<>>
    /\ \A k \in 1 .. Len(page) : page[k].nodeType = ElementNode => page[k].id = ""

\* C16 as stated: the CSS path of an element with a non-empty id x is exactly
\* #x, and that of a <div class="a b"> child of <body>, with no ids anywhere,
\* is exactly "body > div.a.b".
C16_CssPathStartsAtBody ==
    Located("css_selector") =>
        /\ call.page[call.node].id = "x" => call.out[1] = "#x"
        /\ DivAB(call.page, call.node) => call.out[1] = "body > div.a.b"

\* the segment of one element: lowercased tag, then .class per class token
SegmentByRule(node) ==
    (CASE node.tagName = "HTML" -> "html"
       [] node.tagName = "BODY" -> "body"
       [] node.tagName = "DIV"  -> "div"
       [] node.tagName = "SPAN" -> "span")
    \o (IF node.className = <<>> THEN "" ELSE ".a.b")

\* the segments of <html>, <body>, ..., e joined by " > "
RECURSIVE CssByRule(_, _)
CssByRule(page, e) ==
    IF e = DocHtml THEN SegmentByRule(page[e])
    ELSE CssByRule(page, page[e].parentNode) \o " > " \o SegmentByRule(page[e])

\* C16 (amended): the CSS path of an element with a non-empty id x is exactly
\* #x; the path of an element without id has one segment for every element
\* from <html> down to it (lowercased tag plus .class per class token, joined
\* by " > ", no sibling index, ancestors' ids not used), so a <div class="a b">
\* child of <body> yields exactly "html > body > div.a.b".
C16_CssPathStartsAtHtml ==
    Located("css_selector") =>
        /\ call.page[call.node].id = "x" => call.out[1] = "#x"
        /\ call.page[call.node].id = "" => call.out[1] = CssByRule(call.page, call.node)
        /\ DivAB(call.page, call.node) => call.out[1] = "html > body > div.a.b"

C16_Witness ==
    /\ Located("css_selector")
    /\ call.node = 3
    /\ DivAB(call.page, call.node)
    /\ call.out[1] = "html > body > div.a.b"

\* C17: on every exit path of a run that created a browser session (normal
\* completion, an exception from any step, a stop noticed at a checkpoint) the
\* session has been closed, driver.quit invoked, when the run ends.
C17_SessionClosedOnExit ==
    pc \in {"after", "finished"} => session \in {"none", "closed"}

\* the last round of the polling loop read two equal heights
StableSamples(w) == w.samples # <<>> /\ Stable(w.samples[1], w.samples[2])

\* C18: the polling loop of the stability wait runs at most AdditionalWait
\* rounds whatever the heights read (changing on every read, or reads that
\* raise); it is left in the first round whose two samples are equal, and
\* otherwise only when the rounds are used up; it is left for Scrolling only,
\* and the wait then always comes to its end and scrape_page goes on.
C18_PollingBoundedThenScrolls ==
    /\ [](pc = "wait" => ws.iter <= AdditionalWait)
    /\ [](Waiting("PollingHeight") => ~StableSamples(ws))
    /\ [][(Waiting("PollingHeight") /\ ws'.iter = ws.iter + 1 /\ StableSamples(ws'))
            => ws'.phase = "Scrolling"]_vars
    /\ [][(Waiting("PollingHeight") /\ ws'.phase # "PollingHeight")
            => /\ pc' = "wait"
               /\ ws'.phase = "Scrolling"
               /\ StableSamples(ws') \/ ws.iter = AdditionalWait]_vars
    /\ Waiting("PollingHeight") ~> Waiting("Scrolling")
    /\ Waiting("Scrolling") ~> (pc = "page_info" /\ ws.phase = "Settled")

C18_Witness ==
    /\ Waiting("Scrolling")
    /\ ws.iter = AdditionalWait
    /\ ws.samples = <<1, 2>>
    /\ "sample" \in ws.faults

\* C19: a fault of the page-level wait does not fail scrape_page.  The step in
\* which the wait for <body> or for readyState expires, or in which a driver
\* call of the scrolling pass raises, ends the wait with no exception
\* surfaced: scrape_page goes on to capture page_info, from where the walk and
\* the result follow as after a wait without fault.
C19_WaitFaultsNotFatal ==
    /\ (pc \in {"wait", "page_info"} /\ ws.faults # {}) => failure = "none"
    /\ (ws.faults \cap {"timeout", "scroll"} # {}) =>
          /\ pc = "page_info"
          /\ ws.phase = IF "timeout" \in ws.faults THEN "TimedOut" ELSE "Settled"
          /\ ENABLED CapturePageInfo
    /\ failure = "wait" => ws.faults \cap {"timeout", "scroll"} = {}

C19_Witness ==
    /\ pc = "page_info"
    /\ ws.phase = "Settled"
    /\ ws.faults = {"sample", "scroll"}
    /\ failure = "none"
    /\ is_running

(* ------------------------------- C21 ----------------------------------- *)
\* the steps of the login sequence whose faults the claim is about
SubmissionSteps == {"username", "password", "submit", "keystroke"}

\* C21: a collaborator fault while filling the username field, filling the
\* password field, clicking the submit element or sending the fallback
\* keystroke ends login() with False, and no later step of the sequence has
\* run: the fields after the faulty one are not typed into, nothing is
\* submitted after a fill fault, and the current URL is never read or compared
C21_FillOrSubmitFaultEndsLogin ==
    lg.fault \in SubmissionSteps =>
        /\ pc \in {"login_ret", "finally", "after", "finished"}
        /\ lg.ret = "false"
        /\ lg.cur = <<>>
        /\ ~lg.warned
        /\ url # "after_login"
        /\ lg.fault = "username" => lg.filled = {} /\ lg.clicks = 0 /\ lg.keys = 0
        /\ lg.fault = "password" => lg.filled = {"username"} /\ lg.clicks = 0 /\ lg.keys = 0
        /\ lg.fault = "submit" => lg.keys = 0
        /\ lg.fault = "keystroke" => lg.clicks = 0

\* the keystroke sent without a submit selector raised and scrape_page has
\* seen login() return False
C21_Witness ==
    /\ lg.fault = "keystroke"
    /\ lg.filled = {"username", "password"}
    /\ lg.ret = "false"
    /\ failure = "login"

(* ------------------------------- C22 ----------------------------------- *)
\* the elements of the page the walk has no record of, leaving out those whose
\* is_displayed() answered False
LeftUnrecorded == {n \in DomNodes(dom) : indexOf[n] = -1 /\ shown[n] # "hidden"}

\* C22: during one traversal the "element cap reached" notice is printed at
\* most once, and a traversal that printed it left at least one element that
\* was not hidden without a record
C22_NoticeOnceAndOnlyOnLoss ==
    /\ notices <= 1
    /\ Returned /\ notices >= 1 => LeftUnrecorded # {}

(* ------------------------------- C23 ----------------------------------- *)
\* print_summary() has been called
SummaryPrinted(ts) == ts # <<>> /\ ts[1].printed

\* one step of scrape_page, looked at for the order it keeps
C23_StepInOrder ==
    \* navigation to the target starts once login() has returned True, or at
    \* once when no login is required
    /\ pc' = "navigate" /\ pc # "navigate" =>
         \/ pc = "login_ret" /\ LoginRequired(login_info) /\ lg.ret = "true"
         \/ pc = "scrape" /\ ~LoginRequired(login_info')
    \* the target is loaded by the navigation step, and the wait follows it
    /\ url' = "target" /\ url # "target" => pc = "navigate" /\ pc' = "wait"
    /\ pc' = "wait" => url' = "target" /\ page_info' = 0
    \* page_info is read once, when the wait is over and nothing was queried
    /\ page_info' # page_info =>
         /\ pc = "page_info" /\ ws.phase # "none"
         /\ page_info = 0 /\ page_info' = 1
         /\ queryDepths = {} /\ element_count = 0
    /\ queryDepths' # queryDepths => page_info = 1 /\ page_info' = 1
    \* the summary is printed by the step that ends the traversal
    /\ SummaryPrinted(timing_stats') /\ ~SummaryPrinted(timing_stats) =>
         stack' = <<>> /\ result' # <<>> /\ pc' = "check_scraped"

\* C23: in every run of scrape_page login (when required) completes before
\* the navigation to the target, the navigation precedes the wait, page_info
\* is captured exactly once, after the wait and before the first element
\* query, and the timing summary is printed only after the traversal has ended
C23_StepsInOrder ==
    /\ [][C23_StepInOrder]_vars
    /\ [](Returned => page_info = 1 /\ SummaryPrinted(timing_stats))
    /\ [](SummaryPrinted(timing_stats) => Returned /\ stack = <<>>)
    /\ [](page_info <= 1)

\* a run that waited for the target and returned a forest of two full records
C23_Witness ==
    /\ Returned
    /\ page_info = 1
    /\ SummaryPrinted(timing_stats)
    /\ timing_stats[1].elements = 2
    /\ url = "target"
    /\ pc = "check_scraped"

(* ------------------------------- C24 ----------------------------------- *)
\* both traversals of a replay have returned
ReplayDone == Scripted /\ call.first # <<>> /\ Returned

\* C24: for the same page and the same collaborator behaviour a traversal with
\* timing enabled and one with timing disabled return the same forest (same
\* records, indices, children and order) and the same total_elements
C24_TimingDoesNotChangeForest ==
    ReplayDone /\ call.vary = "timing" =>
        /\ call.first[1].timing_stats # <<>>
        /\ timing_stats = <<>>
        /\ Elements = call.first[1].result.elements
        /\ result[1].total_elements = call.first[1].result.total_elements

\* a page of a body with a child walked both ways, one record a stub; the
\* timed run took the time of the one full record
C24_Witness ==
    /\ ReplayDone
    /\ call.vary = "timing"
    /\ timing_stats = <<>>
    /\ CountRecords(Elements) = 2
    /\ Stubs(Elements) # {}
    /\ call.first[1].timing_stats[1].elements = 1
    /\ call.first[1].timing_stats[1].printed

(* ------------------------------- C26 ----------------------------------- *)
\* every record of a forest as <<index, tag, index of its parent record>>,
\* the parent of a root being -1
RECURSIVE RecordKeys(_, _)
RecordKeys(forest, parent) ==
    IF forest = <<>> THEN {}
    ELSE {<<Head(forest).index, Head(forest).tag_name, parent>>}
         \cup RecordKeys(Head(forest).children, Head(forest).index)
         \cup RecordKeys(Tail(forest), parent)

Min(a, b) == IF a < b THEN a ELSE b

\* C26: with a fault-free collaborator the records of a traversal capped at m
\* are exactly the records of index 0 .. min(m, N) - 1 of the uncapped
\* traversal of the same page (N its record count), each with the same index,
\* tag and parent
C26_CappingKeepsPrefix ==
    ReplayDone /\ call.vary = "cap" =>
        LET capped == call.first[1].result.elements
            m == call.first[1].max_elements
            N == CountRecords(Elements)
        IN RecordKeys(capped, -1) =
             {k \in RecordKeys(Elements, -1) : k[1] \in 0 .. (Min(m, N) - 1)}

\* a page of three displayed elements, capped at two records and then walked
\* without a cap in force
C26_Witness ==
    /\ ReplayDone
    /\ call.vary = "cap"
    /\ call.first[1].max_elements = 2
    /\ CountRecords(call.first[1].result.elements) = 2
    /\ CountRecords(Elements) = 3
    /\ max_elements = DefaultMaxElements

(* ------------------------------- C30 ----------------------------------- *)
\* login_url, username and password are all present and non-empty
AllThreeGiven(li) == li.present /\ {"login_url", "username", "password"} \subseteq li.fields

\* C30: the login sequence is run if and only if login_url, username and
\* password are all present and non-empty.  With all three, scrape_page is in
\* the sequence, or past it with True returned, or has failed on its False;
\* with login information lacking one of them no login step is taken, no
\* failure is raised and scrape_page stands right before the navigation to
\* the target
C30_LoginIffAllThreeGiven ==
    /\ InLogin => AllThreeGiven(login_info)
    /\ AllThreeGiven(login_info) =>
         \/ InLogin
         \/ pc = "navigate" /\ lg.ret = "true"
         \/ pc \in {"finally", "after", "finished"} /\ lg.ret = "false" /\ failure = "login"
    /\ login_info.present /\ ~AllThreeGiven(login_info) =>
         /\ pc = "navigate"
         /\ lg = LgIdle
         /\ url = "blank"
         /\ failure = "none"

\* login information with selectors and a password but no user name: the
\* call stands before driver.get(url) and no step of login() was taken
C30_Witness ==
    /\ login_info.present
    /\ login_info.fields = {"login_url", "password"} \cup Selectors
    /\ pc = "navigate"
    /\ lg = LgIdle
    /\ failure = "none"

(* ------------------------------- C25 ----------------------------------- *)
\* the element nodes of a generated report
RenderedNodes(html) == {k \in DOMAIN html : html[k].kind = "element"}

\* C25: for every forest, whatever its nesting depth, the HTML report holds
\* exactly one element node per record: the number of rendered nodes equals
\* the recursive record count
C25_HtmlHasNodePerRecord ==
    call.op = "html" /\ call.out # <<>> =>
        Cardinality(RenderedNodes(call.out[1])) = CountRecords(call.elements)

(* ------------------------------- C27 ----------------------------------- *)
\* C27: at most one scraping worker thread is alive at any time, whatever the
\* interleaving of start_scraping, stop_scraping and worker completion
C27_AtMostOneWorkerAlive ==
    Cardinality({k \in Workers : Alive(k)}) <= 1

(* ------------------------------- C28 ----------------------------------- *)
\* C28: a worker that was inside scrape_page when stop_scraping was called
\* never calls save_to_json or save_to_html afterwards
C28_StoppedWorkerNeverSaves ==
    \A k \in Workers : Started(k) /\ gui.workers[k].stopped => gui.workers[k].files = {}

(* ------------------------------- C29 ----------------------------------- *)
\* the step in which _scraping_finished runs leaves the flag cleared, the
\* execute button enabled and the stop button disabled
C29_FinishedResetsWindow ==
    \A k \in Workers :
        At(k, "scheduled") /\ gui'.workers[k].at = "finished" =>
            /\ ~is_running'
            /\ gui'.execute_button = "normal"
            /\ gui'.stop_button = "disabled"

\* C29: every run that is started reaches _scraping_finished, whether it
\* succeeded, raised (the creation of the session included) or returned early
\* after a stop request, and _scraping_finished leaves is_running False, the
\* execute button enabled and the stop button disabled
C29_EveryRunFinishes ==
    /\ \A k \in Workers : Started(k) ~> At(k, "finished")
    /\ [][C29_FinishedResetsWindow]_vars

\* the first run ended without a file saved, the second saved both files:
\* both have reached _scraping_finished and the window is idle again
C29_Witness ==
    /\ At(1, "finished") /\ gui.workers[1].files = {}
    /\ At(2, "finished") /\ gui.workers[2].files = {"json", "html"}
    /\ ~is_running
    /\ gui.execute_button = "normal"
    /\ gui.stop_button = "disabled"

====
